---------------------------- MODULE Spec2Model ----------------------------
(***************************************************************************)
(* Model of the Logelse Node.js SDK client (LogelseClient).                *)
(*                                                                         *)
(* The repository holds two revisions of the class:                        *)
(*   - src/src/client.ts     the "simplified" API: log(level, message,     *)
(*                           timestamp?) and the per-level shorthands;     *)
(*   - src/unnamed/part_000  the "entry" API: log(entry), logBatch,        *)
(*                           createLogEntry, logMessage, validateLogEntry. *)
(* Both share sendWithRetry, handleError and delay verbatim.  A client     *)
(* instance belongs to one of them (client.api).                           *)
(*                                                                         *)
(* JavaScript is single threaded: an action is the code that runs between  *)
(* two suspension points (the transport call and the inter-attempt delay), *)
(* together with the promise reactions (microtasks) it triggers.           *)
(***************************************************************************)
EXTENDS Integers, Sequences, FiniteSets, TLC

VARIABLES
    client,     \* the constructed instance: api, apiKey, appName, appUuid, options
    ctorError,  \* message thrown by the constructor, "" when it returned
    ops,        \* public calls made so far (log, shorthands, logBatch, ...)
    sends,      \* sendWithRetry invocations, in start order
    posted,     \* every (send, endpoint, data) handed to httpClient.post
    now         \* the wall clock read by new Date()

vars == <<client, ctorError, ops, sends, posted, now>>

-----------------------------------------------------------------------------
(* Bounds of the model *)

MaxOps == 2      \* public calls per behaviour
MaxSends == 2    \* sendWithRetry invocations per behaviour
MaxBatch == 2    \* longest array given to logBatch
MaxClock == 1    \* clock ticks per behaviour
MaxAttempt == 4  \* the attempt counter stops counting here (a double stops at 2^53)
MaxHistory == 8  \* events of a send that are recorded (calls, delays, outcomes)

-----------------------------------------------------------------------------
(* JavaScript values.  A number is the rational n/d (d is 1 or 2), so that *)
(* a fractional option such as retryAttempts: 2.5 can be written.          *)

Undefined == [t |-> "undefined", s |-> "", n |-> 0, d |-> 1]
Null == [t |-> "null", s |-> "", n |-> 0, d |-> 1]
Str(x) == [t |-> "string", s |-> x, n |-> 0, d |-> 1]
Num(k) == [t |-> "number", s |-> "", n |-> k, d |-> 1]
Halves(k) == [t |-> "number", s |-> "", n |-> k, d |-> 2]
Bool(b) == [t |-> "boolean", s |-> "", n |-> IF b THEN 1 ELSE 0, d |-> 1]
Infinity == [t |-> "number", s |-> "", n |-> 1, d |-> 0]

\* ToBoolean: undefined, null, "", 0 and false are falsy
Truthy(v) ==
    CASE v.t = "undefined" -> FALSE
      [] v.t = "null" -> FALSE
      [] v.t = "string" -> v.s # ""
      [] v.t = "number" -> v.n # 0
      [] v.t = "boolean" -> v.n # 0
      [] OTHER -> TRUE

\* a || b
OrElse(a, b) == IF Truthy(a) THEN a ELSE b

\* !v || typeof v !== 'string'
NotAString(v) == ~Truthy(v) \/ v.t # "string"

\* String(number), for the numbers the model writes
NumToString(v) ==
    IF v.d = 0 THEN "Infinity"
    ELSE IF v.d = 1 THEN ToString(v.n)
    ELSE IF v.n < 0 THEN "-" \o ToString((0 - v.n) \div 2) \o ".5"
    ELSE ToString(v.n \div 2) \o ".5"

\* String(v) / template interpolation of a value
ValueToString(v) ==
    CASE v.t = "string" -> v.s
      [] v.t = "number" -> NumToString(v)
      [] v.t = "boolean" -> (IF v.n # 0 THEN "true" ELSE "false")
      [] OTHER -> v.t

\* attempt <= retryAttempts and attempt < retryAttempts, attempt an integer
\* (both hold of Infinity, which is 1/0)
IntLeq(a, v) == a * v.d <= v.n
IntLess(a, v) == a * v.d < v.n

-----------------------------------------------------------------------------
(* Dates.  The clock counts milliseconds from the epoch.                   *)

\* Date.prototype.toISOString for the instants the clock takes
toISOString(ms) ==
    "1970-01-01T00:00:00." \o (IF ms < 10 THEN "00" ELSE IF ms < 100 THEN "0" ELSE "")
        \o ToString(ms) \o "Z"

CustomTimestamp == "1970-01-01T00:00:05Z"
GarbageTimestamp == "not-a-date"

\* Date.parse: [nan, ms]; a string that is no date gives NaN
DateParse(s) ==
    IF s = CustomTimestamp THEN [nan |-> FALSE, ms |-> 5000]
    ELSE IF \E k \in 0..MaxClock : s = toISOString(k)
         THEN [nan |-> FALSE, ms |-> CHOOSE k \in 0..MaxClock : s = toISOString(k)]
    ELSE [nan |-> TRUE, ms |-> 0]


-----------------------------------------------------------------------------
(* Log entries (src/src/types.ts LogEntry), as JavaScript values: t is     *)
(* "object" for a record, and "null" / "string" for what a caller can pass *)
(* in its place.                                                           *)

Entry(ts, level, message, appName, appUuid) ==
    [t |-> "object", timestamp |-> ts, log_level |-> level, message |-> message,
     app_name |-> appName, app_uuid |-> appUuid]

NullEntry == [Entry(Undefined, Undefined, Undefined, Undefined, Undefined) EXCEPT !.t = "null"]
StringEntry == [Entry(Undefined, Undefined, Undefined, Undefined, Undefined) EXCEPT !.t = "string"]

\* validateLogEntry: the message of the error it throws, "" when it returns
validateLogEntry(entry) ==
    IF entry.t # "object" THEN "Log entry must be an object"
    ELSE IF NotAString(entry.timestamp)
        THEN "Field 'timestamp' is required and must be a string"
    ELSE IF NotAString(entry.log_level)
        THEN "Field 'log_level' is required and must be a string"
    ELSE IF NotAString(entry.message)
        THEN "Field 'message' is required and must be a string"
    ELSE IF NotAString(entry.app_name)
        THEN "Field 'app_name' is required and must be a string"
    ELSE IF NotAString(entry.app_uuid)
        THEN "Field 'app_uuid' is required and must be a string"
    ELSE IF DateParse(entry.timestamp.s).nan
        THEN "Timestamp must be a valid ISO 8601 date string"
    ELSE ""

\* createLogEntry (part_000): stamps the entry with the clock
createLogEntry(level, message, appName, appUuid, clock) ==
    Entry(Str(toISOString(clock)), level, message, appName, appUuid)

-----------------------------------------------------------------------------
(* Construction *)

NoClient ==
    [api |-> "none", apiKey |-> Undefined, appName |-> Undefined, appUuid |-> Undefined,
     options |-> [baseUrl |-> Undefined, timeout |-> Undefined, retryAttempts |-> Undefined,
                  retryDelay |-> Undefined, debug |-> Undefined]]

\* the defaulting of the options, the same in both revisions
resolveOptions(o) ==
    [baseUrl |-> OrElse(o.baseUrl, Str("https://ingst.logelse.com")),
     timeout |-> OrElse(o.timeout, Num(5000)),
     retryAttempts |-> OrElse(o.retryAttempts, Num(3)),
     retryDelay |-> OrElse(o.retryDelay, Num(1000)),
     debug |-> OrElse(o.debug, Bool(FALSE))]

\* a constructor that looks at appName before it looks at the key
constructorErrorNameFirst(api, apiKey, o) ==
    IF api = "simplified" /\ NotAString(o.appName)
        THEN "appName is required and must be a string"
    ELSE IF NotAString(apiKey) THEN "API key is required and must be a string"
    ELSE IF api = "simplified" /\ NotAString(o.appUuid)
        THEN "appUuid is required and must be a string"
    ELSE ""

\* constructor: the message it throws, "" when it returns.  The entry API
\* (part_000) takes no appName / appUuid.
constructorError(api, apiKey, o) ==
    IF NotAString(apiKey) THEN "API key is required and must be a string"
    ELSE IF api = "simplified" /\ NotAString(o.appName)
        THEN "appName is required and must be a string"
    ELSE IF api = "simplified" /\ NotAString(o.appUuid)
        THEN "appUuid is required and must be a string"
    ELSE ""

\* constructor: the instance it builds
constructor(api, apiKey, o) ==
    IF constructorError(api, apiKey, o) # "" THEN NoClient
    ELSE [api |-> api, apiKey |-> apiKey,
          appName |-> IF api = "simplified" THEN o.appName ELSE Undefined,
          appUuid |-> IF api = "simplified" THEN o.appUuid ELSE Undefined,
          options |-> resolveOptions(o)]

-----------------------------------------------------------------------------
(* Transport failures: what httpClient.post can reject with.  A thrown     *)
(* value is an axios error (isAxios: with or without response, with or     *)
(* without request; dataMessage is response.data.message, "" when the body *)
(* or its message is missing), another Error (isError), or any other value *)
(* (value).                                                                *)

Thrown(isAxios, hasResponse, status, dataMessage, hasRequest, isError, message) ==
    [isAxios |-> isAxios, hasResponse |-> hasResponse, status |-> status,
     dataMessage |-> dataMessage, hasRequest |-> hasRequest, isError |-> isError,
     message |-> message, value |-> Undefined]

\* `throw v` of a value that is no Error
ThrownValue(v) == [Thrown(FALSE, FALSE, 0, "", FALSE, FALSE, "") EXCEPT !.value = v]

NoFailure == Thrown(FALSE, FALSE, 0, "", FALSE, FALSE, "")

\* the three failures of the test suite's "error handling" cases: an HTTP error
\* response, a request without response, a plain Error
Failures ==
    { Thrown(TRUE, TRUE, 400, "Bad Request", TRUE, TRUE, "Request failed"),
      Thrown(TRUE, FALSE, 0, "", TRUE, TRUE, "Network Error"),
      Thrown(FALSE, FALSE, 0, "", FALSE, TRUE, "Generic error") }

\* what httpClient.post can resolve with: a response, or nothing at all (the
\* bare jest.fn() of the test suite, a response interceptor that returns nothing)
Response(status) == [t |-> "object", status |-> status]
NoResponse == [t |-> "undefined", status |-> 0]
Responses == {Response(200), NoResponse}

\* more of what a transport can reject with: HTTP responses with and without a
\* message in the body, axios errors without response, with and without
\* request, other Errors, and values that are no Error
ThrownValues ==
    {Thrown(TRUE, TRUE, status, dataMessage, hasRequest, TRUE, "Request failed") :
        status \in {400, 503}, dataMessage \in {"", "Bad Request"}, hasRequest \in BOOLEAN}
    \cup {Thrown(TRUE, FALSE, 0, "", hasRequest, TRUE, message) :
        hasRequest \in BOOLEAN, message \in {"Network Error", "timeout of 5000ms exceeded"}}
    \cup {Thrown(FALSE, FALSE, 0, "", FALSE, TRUE, "Generic error")}
    \cup {ThrownValue(v) : v \in {Str("boom"), Undefined, Num(42)}}

\* the TypeError of `response.status` (line 121) when response is undefined
StatusOfUndefined ==
    Thrown(FALSE, FALSE, 0, "", FALSE, TRUE,
           "Cannot read properties of undefined (reading 'status')")

\* a handleError that looks for the request before the response
requestFirst(e) ==
    IF e.isAxios /\ e.hasRequest THEN "Network error: " \o e.message
    ELSE IF e.isAxios /\ e.hasResponse THEN
        IF e.dataMessage # "" THEN "HTTP " \o ToString(e.status) \o ": " \o e.dataMessage
        ELSE "HTTP " \o ToString(e.status) \o ": " \o e.message
    ELSE IF e.isError THEN e.message
    ELSE ValueToString(e.value)

\* a handleError that takes a response without a message for no response
messageOrNetwork(e) ==
    IF e.isAxios /\ e.hasResponse /\ e.dataMessage # ""
        THEN "HTTP " \o ToString(e.status) \o ": " \o e.dataMessage
    ELSE IF e.isAxios /\ (e.hasResponse \/ e.hasRequest) THEN "Network error: " \o e.message
    ELSE IF e.isError THEN e.message
    ELSE ValueToString(e.value)

\* handleError: the message of the Error it returns
handleError(e) ==
    IF e.isAxios /\ e.hasResponse THEN
        IF e.dataMessage # "" THEN "HTTP " \o ToString(e.status) \o ": " \o e.dataMessage
        ELSE "HTTP " \o ToString(e.status) \o ": " \o e.message
    ELSE IF e.isAxios /\ e.hasRequest THEN "Network error: " \o e.message
    ELSE IF e.isError THEN e.message
    ELSE ValueToString(e.value)

\* the message of the Error thrown when the loop is left (line 138)
exhaustedMessage(retryAttempts, lastError) ==
    "Failed to send log after " \o ValueToString(retryAttempts) \o " attempts: " \o lastError


-----------------------------------------------------------------------------
(* sendWithRetry.  A send is one invocation; pc is where it is suspended:  *)
(* "post" (awaiting httpClient.post), "delay" (awaiting this.delay), or    *)
(* settled: "done" (returned) / "failed" (threw).  trace lists the         *)
(* transport calls and delays it has made, waits the milliseconds each     *)
(* delay was requested with, console the lines it wrote with console.log,  *)
(* thrown is the value the catch block last caught; fails and succeeded    *)
(* count the transport calls of the send that rejected and resolved,       *)
(* elapsed the timers of its delays that fired.                            *)

Endpoint == "/logs"

NewSend(op, index, endpoint, data) ==
    [op |-> op, index |-> index, endpoint |-> endpoint, data |-> data,
     attempt |-> 1, lastError |-> "Unknown error", pc |-> "start",
     trace |-> <<>>, waits |-> <<>>, console |-> <<>>, thrown |-> NoFailure,
     fails |-> 0, succeeded |-> 0, elapsed |-> 0, error |-> ""]

\* the history of a send with one more event, and a count of events with one
\* more: the first MaxHistory are kept
Keep(history, event) == IF Len(history) < MaxHistory THEN Append(history, event) ELSE history
Count(n) == IF n < MaxHistory THEN n + 1 ELSE n

\* attempt++
Increment(attempt) == IF attempt < MaxAttempt THEN attempt + 1 ELSE attempt

\* console.log(line) under `if (this.options.debug)`
debugLog(options, console, line) ==
    IF Truthy(options.debug) THEN Keep(console, line) ELSE console

\* the head of the for loop, entered with the given attempt number: either the
\* body runs up to httpClient.post, or the loop is left and line 138 throws
loopHead(options, s, attempt) ==
    IF IntLeq(attempt, options.retryAttempts)
    THEN [s EXCEPT !.attempt = attempt, !.pc = "post", !.trace = Keep(@, "post"),
                   !.console = debugLog(options, @,
                       "[Logelse] Attempt " \o ToString(attempt) \o "/"
                       \o ValueToString(options.retryAttempts) \o " - Sending log to "
                       \o s.endpoint)]
    ELSE [s EXCEPT !.attempt = attempt, !.pc = "failed",
                   !.error = exhaustedMessage(options.retryAttempts, s.lastError)]

\* the call of sendWithRetry, up to its first suspension
sendWithRetry(options, op, index, endpoint, data) ==
    loopHead(options, NewSend(op, index, endpoint, data), 1)

\* a catch block whose delay grows with the attempt number
backOff(options, s, e) ==
    LET c == [s EXCEPT !.lastError = handleError(e), !.thrown = e]
    IN IF IntLess(c.attempt, options.retryAttempts)
       THEN [c EXCEPT !.pc = "delay", !.trace = Keep(@, "delay"),
                      !.waits = Keep(@, [options.retryDelay EXCEPT !.n = @ * c.attempt])]
       ELSE loopHead(options, c, Increment(c.attempt))

\* a catch block that starts the delay without awaiting it
retryAtOnce(options, s, e) ==
    LET c == [s EXCEPT !.lastError = handleError(e), !.thrown = e]
    IN IF IntLess(c.attempt, options.retryAttempts)
       THEN loopHead(options,
                     [c EXCEPT !.trace = Keep(@, "delay"),
                               !.waits = Keep(@, options.retryDelay)],
                     Increment(c.attempt))
       ELSE loopHead(options, c, Increment(c.attempt))

\* a catch block that does not retry a 4xx response
giveUpOnClientError(options, s, e) ==
    LET c == [s EXCEPT !.lastError = handleError(e), !.thrown = e]
    IN IF e.hasResponse /\ e.status \in 400..499
       THEN [c EXCEPT !.pc = "failed",
                      !.error = exhaustedMessage(options.retryAttempts, c.lastError)]
       ELSE IF IntLess(c.attempt, options.retryAttempts)
       THEN [c EXCEPT !.pc = "delay", !.trace = Keep(@, "delay"),
                      !.waits = Keep(@, options.retryDelay)]
       ELSE loopHead(options, c, Increment(c.attempt))

\* the catch block, entered with the value e the try block threw
catchBlock(options, s, e) ==
    LET c == [s EXCEPT !.lastError = handleError(e), !.thrown = e]
    IN IF IntLess(c.attempt, options.retryAttempts)
       THEN [c EXCEPT !.pc = "delay", !.trace = Keep(@, "delay"),
                      !.waits = Keep(@, options.retryDelay),
                      !.console = debugLog(options, @,
                          "[Logelse] Attempt " \o ToString(c.attempt)
                          \o " failed, retrying in " \o ValueToString(options.retryDelay)
                          \o "ms...")]
       ELSE loopHead(options, c, Increment(c.attempt))

\* the rest of the try block, after httpClient.post resolved with response:
\* with debug on, line 121 reads response.status, which throws into the catch
\* block when there is no response object
tryRest(options, s, response) ==
    IF Truthy(options.debug) /\ response.t # "object"
    THEN catchBlock(options, s, StatusOfUndefined)
    ELSE [s EXCEPT !.pc = "done",
                   !.console = debugLog(options, @,
                       "[Logelse] Log sent successfully: " \o ToString(response.status))]

\* a continuation that marks the entry as a retry before it is sent again
afterDelayMarked(options, s) ==
    loopHead(options, [s EXCEPT !.data.message = Str(@.s \o " (retry)")],
             Increment(s.attempt))

\* the continuation after the delay: attempt++ and the loop head
afterDelay(options, s) == loopHead(options, s, Increment(s.attempt))

Calls(s) == Cardinality({k \in 1..Len(s.trace) : s.trace[k] = "post"})
Delays(s) == Cardinality({k \in 1..Len(s.trace) : s.trace[k] = "delay"})

\* the transport calls a list of sends has just issued
Posts(ss, ids) ==
    {[send |-> i, attempt |-> ss[i].attempt, endpoint |-> ss[i].endpoint, data |-> ss[i].data]
        : i \in {j \in ids : ss[j].pc = "post"}}

-----------------------------------------------------------------------------
(* Public calls.  An op records the call: kind, the message and timestamp  *)
(* arguments of the call (simplified API: text, arg), the level log was    *)
(* run with, the clock at the call, the entries it is about (the           *)
(* entry given, the elements of the array given, or the entry line 70      *)
(* builds from the arguments), the sends it started, and how it settled.   *)

NewOp(kind, arg, isArray, entries) ==
    [kind |-> kind, text |-> Undefined, arg |-> arg, level |-> Undefined, at |-> now,
     isArray |-> isArray,
     entries |-> entries,
     sends |-> <<>>, status |-> "pending", error |-> ""]

Rejected(op, message) == [op EXCEPT !.status = "rejected", !.error = message]

\* a Promise.race in the place of Promise.all: the first settled send decides
settleFirst(op, ss, i) ==
    IF op.status # "pending" \/ \A k \in 1..Len(op.sends) : op.sends[k] # i THEN op
    ELSE IF ss[i].pc = "failed" THEN Rejected(op, ss[i].error)
    ELSE IF ss[i].pc = "done" THEN [op EXCEPT !.status = "resolved"]
    ELSE op

\* the promise of an op after its send i changed: `await sendWithRetry` passes
\* the outcome on; Promise.all rejects with the first rejection and resolves
\* when every promise has resolved
settle(op, ss, i) ==
    IF op.status # "pending" \/ \A k \in 1..Len(op.sends) : op.sends[k] # i THEN op
    ELSE IF ss[i].pc = "failed" THEN Rejected(op, ss[i].error)
    ELSE IF \A k \in 1..Len(op.sends) : ss[op.sends[k]].pc = "done"
        THEN [op EXCEPT !.status = "resolved"]
    ELSE op

\* a Promise.all that looks at its promises only when one settles later
settleLater(op, ss) == op

\* an op that has just started its sends: those already rejected settle it, in
\* index order
settleStarted(op, ss) ==
    LET failed == {k \in 1..Len(op.sends) : ss[op.sends[k]].pc = "failed"}
    IN IF failed = {} THEN op
       ELSE Rejected(op, ss[op.sends[CHOOSE k \in failed : \A j \in failed : k <= j]].error)

\* starts one send per entry for the op being added, and adds the op
Dispatch(op, entries) ==
    LET base == Len(sends)
        opId == Len(ops) + 1
        started == [k \in 1..Len(entries) |->
                       sendWithRetry(client.options, opId, k - 1, Endpoint, entries[k])]
        ss == sends \o started
        ids == {base + k : k \in 1..Len(entries)}
        withSends == [op EXCEPT !.sends = [k \in 1..Len(entries) |-> base + k]]
    IN /\ base + Len(entries) <= MaxSends
       /\ sends' = ss
       /\ posted' = posted \cup Posts(ss, ids)
       /\ ops' = Append(ops, settleStarted(withSends, ss))

\* an op that throws before any send is started
Refuse(op, message) ==
    /\ ops' = Append(ops, Rejected(op, message))
    /\ UNCHANGED <<sends, posted>>

CanCall(api) ==
    /\ ctorError = ""
    /\ client.api = api
    /\ Len(ops) < MaxOps


-----------------------------------------------------------------------------
(* Arguments the callers of the model pass *)

Info == Str("INFO")
Message == Str("Test message")

\* (level, message, timestamp) of log: every timestamp with a valid level and
\* message, every bad level and message without a timestamp
LogArgs ==
    {<<Info, Message, ts>> :
        ts \in {Undefined, Str(CustomTimestamp), Str(GarbageTimestamp), Num(12345)}}
    \cup {<<level, Message, Undefined>> : level \in {Str(""), Undefined, Num(7)}}
    \cup {<<Info, message, Undefined>> : message \in {Str(""), Num(7)}}
    \cup {<<Str(""), Str(""), Undefined>>, <<Str(""), Message, Num(12345)>>}

\* (message, timestamp) of the shorthands
ShortArgs ==
    {<<Message, Undefined>>, <<Message, Str(CustomTimestamp)>>, <<Str(""), Undefined>>}

GoodEntry == Entry(Str(CustomTimestamp), Info, Message, Str("my-app"), Str("my-app-uuid"))
OtherEntry ==
    Entry(Str(CustomTimestamp), Str("ERROR"), Str("Database connection failed"),
          Str("my-app"), Str("my-app-uuid"))

Fields == {"timestamp", "log_level", "message", "app_name", "app_uuid"}
BadValues == {Undefined, Str(""), Num(7)}

With(entry, field, v) ==
    CASE field = "timestamp" -> [entry EXCEPT !.timestamp = v]
      [] field = "log_level" -> [entry EXCEPT !.log_level = v]
      [] field = "message" -> [entry EXCEPT !.message = v]
      [] field = "app_name" -> [entry EXCEPT !.app_name = v]
      [] field = "app_uuid" -> [entry EXCEPT !.app_uuid = v]

Get(entry, field) ==
    CASE field = "timestamp" -> entry.timestamp
      [] field = "log_level" -> entry.log_level
      [] field = "message" -> entry.message
      [] field = "app_name" -> entry.app_name
      [] field = "app_uuid" -> entry.app_uuid

GarbageEntry == With(GoodEntry, "timestamp", Str(GarbageTimestamp))

EntryArgs ==
    {GoodEntry, GarbageEntry, NullEntry, StringEntry,
     With(GarbageEntry, "app_uuid", Str("")),
     With(With(GoodEntry, "message", Undefined), "log_level", Str("")),
     With(With(GoodEntry, "timestamp", Undefined), "app_uuid", Num(7))}
    \cup {With(GoodEntry, f, v) : f \in Fields, v \in BadValues}

BatchElements ==
    {GoodEntry, OtherEntry, With(GoodEntry, "app_name", Str("")), GarbageEntry}

BatchArgs == UNION {[1..n -> BatchElements] : n \in 0..MaxBatch}

-----------------------------------------------------------------------------
(* The simplified API (src/src/client.ts) *)

\* a log that fills app_name and app_uuid the wrong way round
logCallSwapped(kind, given, level, message, timestamp) ==
    LET entry == Entry(OrElse(timestamp, Str(toISOString(now))), level, message,
                       client.appUuid, client.appName)
        op == [NewOp(kind, given[2], FALSE, <<entry>>)
                  EXCEPT !.text = given[1], !.level = level]
    IN /\ CanCall("simplified")
       /\ IF NotAString(level)
            THEN Refuse(op, "Log level is required and must be a string")
          ELSE IF NotAString(message)
            THEN Refuse(op, "Message is required and must be a string")
          ELSE Dispatch(op, <<entry>>)
       /\ UNCHANGED <<client, ctorError, now>>

\* a log that stamps the time read once, when the client was constructed
logCallStampedOnce(kind, given, level, message, timestamp) ==
    LET entry == Entry(OrElse(timestamp, Str(toISOString(0))), level, message,
                       client.appName, client.appUuid)
        op == [NewOp(kind, given[2], FALSE, <<entry>>)
                  EXCEPT !.text = given[1], !.level = level]
    IN /\ CanCall("simplified")
       /\ IF NotAString(level)
            THEN Refuse(op, "Log level is required and must be a string")
          ELSE IF NotAString(message)
            THEN Refuse(op, "Message is required and must be a string")
          ELSE Dispatch(op, <<entry>>)
       /\ UNCHANGED <<client, ctorError, now>>

\* the public call `kind`, made with the (message, timestamp) given, running
\* log(level, message, timestamp)
logCall(kind, given, level, message, timestamp) ==
    LET entry == Entry(OrElse(timestamp, Str(toISOString(now))), level, message,
                       client.appName, client.appUuid)
        op == [NewOp(kind, given[2], FALSE, <<entry>>)
                  EXCEPT !.text = given[1], !.level = level]
    IN /\ CanCall("simplified")
       /\ IF NotAString(level)
            THEN Refuse(op, "Log level is required and must be a string")
          ELSE IF NotAString(message)
            THEN Refuse(op, "Message is required and must be a string")
          ELSE Dispatch(op, <<entry>>)
       /\ UNCHANGED <<client, ctorError, now>>

log == \E a \in LogArgs : logCall("log", <<a[2], a[3]>>, a[1], a[2], a[3])

debug == \E a \in ShortArgs : logCall("debug", a, Str("DEBUG"), a[1], a[2])

info == \E a \in ShortArgs : logCall("info", a, Str("INFO"), a[1], a[2])

\* a warn that passes no timestamp on
warnWithoutTimestamp == \E a \in ShortArgs : logCall("warn", a, Str("WARN"), a[1], Undefined)

warn == \E a \in ShortArgs : logCall("warn", a, Str("WARN"), a[1], a[2])

error == \E a \in ShortArgs : logCall("error", a, Str("ERROR"), a[1], a[2])

fatal == \E a \in ShortArgs : logCall("fatal", a, Str("FATAL"), a[1], a[2])

-----------------------------------------------------------------------------
(* The entry API (src/unnamed/part_000) *)

\* log(entry), called as `kind`
logEntryCall(kind, entry) ==
    LET op == NewOp(kind, Undefined, FALSE, <<entry>>)
    IN /\ CanCall("entry")
       /\ IF validateLogEntry(entry) # ""
            THEN Refuse(op, validateLogEntry(entry))
          ELSE Dispatch(op, <<entry>>)
       /\ UNCHANGED <<client, ctorError, now>>

logEntry == \E entry \in EntryArgs : logEntryCall("logEntry", entry)

\* (level, message, appName, appUuid) of logMessage
MessageArgs ==
    {<<Info, Message, Str("my-app"), Str("my-app-uuid")>>,
     <<Str(""), Message, Str("my-app"), Str("my-app-uuid")>>,
     <<Info, Message, Undefined, Num(7)>>}

logMessage ==
    \E a \in MessageArgs :
        logEntryCall("logMessage", createLogEntry(a[1], a[2], a[3], a[4], now))

\* a forEach that runs to the end and keeps the last throw
lastInvalid(entries) ==
    LET bad == {k \in 1..Len(entries) : validateLogEntry(entries[k]) # ""}
    IN IF bad = {} THEN 0 - 1 ELSE (CHOOSE k \in bad : \A j \in bad : k >= j) - 1

\* the first index at which validateLogEntry throws, -1 when there is none
firstInvalid(entries) ==
    LET bad == {k \in 1..Len(entries) : validateLogEntry(entries[k]) # ""}
    IN IF bad = {} THEN 0 - 1 ELSE (CHOOSE k \in bad : \A j \in bad : k <= j) - 1

\* logBatch without the length test of line 57
logBatchUnguarded(entries) ==
    LET op == NewOp("logBatch", Undefined, TRUE, entries)
        index == firstInvalid(entries)
    IN IF index >= 0
         THEN Refuse(op, "Invalid log entry at index " \o ToString(index) \o ": "
                         \o validateLogEntry(entries[index + 1]))
       ELSE Dispatch(op, entries)

\* logBatch(entries) with an array
logBatchCall(entries) ==
    LET op == NewOp("logBatch", Undefined, TRUE, entries)
        index == firstInvalid(entries)
    IN IF Len(entries) = 0 THEN Refuse(op, "Entries must be a non-empty array")
       ELSE IF index >= 0
         THEN Refuse(op, "Invalid log entry at index " \o ToString(index) \o ": "
                         \o validateLogEntry(entries[index + 1]))
       ELSE Dispatch(op, entries)

logBatch ==
    /\ CanCall("entry")
    /\ \/ \E entries \in BatchArgs : logBatchCall(entries)
       \/ \E given \in {NullEntry, GoodEntry} :   \* not an array
            Refuse(NewOp("logBatch", Undefined, FALSE, <<given>>),
                   "Entries must be a non-empty array")
    /\ UNCHANGED <<client, ctorError, now>>

-----------------------------------------------------------------------------
(* The transport and the timers *)

Pending(pc) == {i \in 1..Len(sends) : sends[i].pc = pc}

\* a resumption that aborts the other sends of a batch once one of them failed
AdvanceCancelling(i, s) ==
    LET aborts == s.pc = "failed" /\ ops[s.op].kind = "logBatch"
        ss == [j \in 1..Len(sends) |->
                  IF j = i THEN s
                  ELSE IF aborts /\ sends[j].op = s.op /\ sends[j].pc \in {"post", "delay"}
                      THEN [sends[j] EXCEPT !.pc = "failed", !.error = "Request aborted"]
                  ELSE sends[j]]
    IN /\ sends' = ss
       /\ posted' = posted \cup Posts(ss, IF s.trace # sends[i].trace THEN {i} ELSE {})
       /\ ops' = [k \in 1..Len(ops) |-> settle(ops[k], ss, i)]
       /\ UNCHANGED <<client, ctorError, now>>

Advance(i, s) ==
    LET ss == [sends EXCEPT ![i] = s]
    IN /\ sends' = ss
       /\ posted' = posted \cup Posts(ss, IF s.trace # sends[i].trace THEN {i} ELSE {})
       /\ ops' = [k \in 1..Len(ops) |-> settle(ops[k], ss, i)]
       /\ UNCHANGED <<client, ctorError, now>>

\* the call of send i resolves: the rest of the try block
Resolves(i) ==
    \E response \in Responses :
        Advance(i, tryRest(client.options, [sends[i] EXCEPT !.succeeded = Count(@)], response))

\* the call of send i rejects with one of the thrown values: the catch block
Rejects(i, thrown) ==
    \E e \in thrown :
        Advance(i, catchBlock(client.options, [sends[i] EXCEPT !.fails = Count(@)], e))

\* a loop whose attempt counter is a field of the client, shared by its sends
ElapsesShared(i) ==
    LET s == afterDelay(client.options, [sends[i] EXCEPT !.elapsed = Count(@)])
        ss == [j \in 1..Len(sends) |->
                  IF j = i THEN s
                  ELSE IF sends[j].pc \in {"post", "delay"}
                      THEN [sends[j] EXCEPT !.attempt = Increment(@)]
                  ELSE sends[j]]
    IN /\ sends' = ss
       /\ posted' = posted \cup Posts(ss, IF s.trace # sends[i].trace THEN {i} ELSE {})
       /\ ops' = [k \in 1..Len(ops) |-> settle(ops[k], ss, i)]
       /\ UNCHANGED <<client, ctorError, now>>

\* a delay that backs off by doubling the configured retryDelay
ElapsesDoubling(i) ==
    LET s == afterDelay(client.options, [sends[i] EXCEPT !.elapsed = Count(@)])
        ss == [sends EXCEPT ![i] = s]
    IN /\ sends' = ss
       /\ posted' = posted \cup Posts(ss, IF s.trace # sends[i].trace THEN {i} ELSE {})
       /\ ops' = [k \in 1..Len(ops) |-> settle(ops[k], ss, i)]
       /\ client' = [client EXCEPT !.options.retryDelay = Num(2 * @.n)]
       /\ UNCHANGED <<ctorError, now>>

\* the timer of the delay of send i fires: attempt++ and the loop head
Elapses(i) == Advance(i, afterDelay(client.options, [sends[i] EXCEPT !.elapsed = Count(@)]))

\* httpClient.post resolves
PostResolves == \E i \in Pending("post") : Resolves(i)

\* httpClient.post rejects
PostRejects == \E i \in Pending("post") : Rejects(i, Failures)

\* httpClient.post rejects with any of the thrown values
PostRejectsWithAny == \E i \in Pending("post") : Rejects(i, ThrownValues)

\* the timer of this.delay fires
DelayElapses == \E i \in Pending("delay") : Elapses(i)

\* the clock advances; it is read by public calls only, so its ticks are
\* followed while a call can still be made
Tick ==
    /\ now < MaxClock
    /\ Len(ops) < MaxOps
    /\ now' = now + 1
    /\ UNCHANGED <<client, ctorError, ops, sends, posted>>

-----------------------------------------------------------------------------
(* Clients *)

Options(appName, appUuid, baseUrl, timeout, retryAttempts, retryDelay, dbg) ==
    [appName |-> appName, appUuid |-> appUuid, baseUrl |-> baseUrl, timeout |-> timeout,
     retryAttempts |-> retryAttempts, retryDelay |-> retryDelay, debug |-> dbg]

Named(retryAttempts, retryDelay) ==
    Options(Str("test-app"), Str("test-uuid-123"), Undefined, Undefined,
            retryAttempts, retryDelay, Undefined)

ApiKey == Str("test-api-key")

\* (api, apiKey, options) of the constructions
ClientArgs ==
    { <<"simplified", ApiKey, Named(Undefined, Undefined)>>,
      <<"simplified", ApiKey, Named(Num(0 - 1), Undefined)>>,
      <<"simplified", ApiKey, Named(Halves(3), Num(10))>>,
      <<"simplified", ApiKey,
        Options(Str("test-app"), Str("test-uuid-123"), Str("https://custom.api.com"),
                Num(10000), Num(1), Num(2000), Bool(TRUE))>>,
      <<"simplified", Str(""), Named(Undefined, Undefined)>>,
      <<"simplified", ApiKey,
        Options(Undefined, Str("test"), Undefined, Undefined, Undefined, Undefined, Undefined)>>,
      <<"simplified", ApiKey,
        Options(Str("test"), Num(7), Undefined, Undefined, Undefined, Undefined, Undefined)>>,
      <<"entry", ApiKey, Named(Num(2), Num(10))>>,
      <<"entry", ApiKey, Named(Num(0 - 1), Undefined)>>,
      <<"entry", Null, Named(Undefined, Undefined)>> }

Init ==
    /\ \E a \in ClientArgs :
        /\ client = constructor(a[1], a[2], a[3])
        /\ ctorError = constructorError(a[1], a[2], a[3])
    /\ ops = <<>>
    /\ sends = <<>>
    /\ posted = {}
    /\ now = 0

Next ==
    \/ log \/ debug \/ info \/ warn \/ error \/ fatal
    \/ logEntry \/ logMessage \/ logBatch
    \/ PostResolves \/ PostRejects \/ DelayElapses
    \/ Tick

Spec == Init /\ [][Next]_vars

\* One call of log on the default client, against a transport that rejects
\* with any of the thrown values: the setting of the error handling tests
InitDefault ==
    /\ client = constructor("simplified", ApiKey, Named(Undefined, Undefined))
    /\ ctorError = ""
    /\ ops = <<>>
    /\ sends = <<>>
    /\ posted = {}
    /\ now = 0

NextOneLog ==
    \/ Len(ops) = 0 /\ log
    \/ PostResolves \/ PostRejectsWithAny \/ DelayElapses

SpecErrors == InitDefault /\ [][NextOneLog]_vars

\* One public call on any of the clients, and on a client told to retry
\* without end, with a platform that completes every transport call and fires
\* every timer
InitAny ==
    /\ \E a \in ClientArgs \cup {<<"simplified", ApiKey, Named(Infinity, Num(10))>>} :
        /\ client = constructor(a[1], a[2], a[3])
        /\ ctorError = constructorError(a[1], a[2], a[3])
    /\ ops = <<>>
    /\ sends = <<>>
    /\ posted = {}
    /\ now = 0

NextOneCall ==
    \/ Len(ops) = 0 /\ log
    \/ Len(ops) = 0 /\ debug
    \/ Len(ops) = 0 /\ info
    \/ Len(ops) = 0 /\ warn
    \/ Len(ops) = 0 /\ error
    \/ Len(ops) = 0 /\ fatal
    \/ Len(ops) = 0 /\ logEntry
    \/ Len(ops) = 0 /\ logMessage
    \/ Len(ops) = 0 /\ logBatch
    \/ PostResolves \/ PostRejects \/ DelayElapses
    \/ Tick

\* every transport call eventually resolves or rejects, every timer fires
Completes ==
    \A i \in 1..MaxSends :
        /\ WF_vars(i \in Pending("post") /\ (Resolves(i) \/ Rejects(i, Failures)))
        /\ WF_vars(i \in Pending("delay") /\ Elapses(i))

SpecFair == InitAny /\ [][NextOneCall]_vars /\ Completes

\* One call of log on a client constructed with any combination of the
\* options, given or omitted: a duration of 0 and a debug of false are values
\* a caller can give
OptionArgs ==
    {Options(Str("test-app"), Str("test-uuid-123"), baseUrl, timeout, retryAttempts,
             retryDelay, dbg) :
        baseUrl \in {Undefined, Str("https://custom.api.com")},
        timeout \in {Undefined, Num(10000), Num(0)},
        retryAttempts \in {Undefined, Num(1), Num(2)},
        retryDelay \in {Undefined, Num(2000), Num(0)},
        dbg \in {Undefined, Bool(TRUE), Bool(FALSE)}}

InitOptions ==
    /\ \E o \in OptionArgs :
        /\ client = constructor("simplified", ApiKey, o)
        /\ ctorError = constructorError("simplified", ApiKey, o)
    /\ ops = <<>>
    /\ sends = <<>>
    /\ posted = {}
    /\ now = 0

NextOptions ==
    \/ Len(ops) = 0 /\ log
    \/ PostResolves \/ PostRejects \/ DelayElapses

SpecOptions == InitOptions /\ [][NextOptions]_vars

\* One call of log on a client constructed with any key, appName and appUuid:
\* a string, the empty string, none, or a number
CtorArgs ==
    {<<"simplified", apiKey,
       Options(appName, appUuid, Undefined, Undefined, Undefined, Undefined, Undefined)>> :
        apiKey \in {ApiKey, Str(""), Undefined, Num(7)},
        appName \in {Str("test-app"), Str("my-app"), Str(""), Undefined, Num(7)},
        appUuid \in {Str("test-uuid-123"), Str(""), Undefined, Num(7)}}

InitConstruct ==
    /\ \E a \in CtorArgs :
        /\ client = constructor(a[1], a[2], a[3])
        /\ ctorError = constructorError(a[1], a[2], a[3])
    /\ ops = <<>>
    /\ sends = <<>>
    /\ posted = {}
    /\ now = 0

SpecConstruct == InitConstruct /\ [][NextOptions]_vars


-----------------------------------------------------------------------------
(* Vocabulary of the properties *)

RetryAttempts == client.options.retryAttempts

SendIds == 1..Len(sends)
OpIds == 1..Len(ops)

\* the send events are calls and delays in turn, starting and ending with a call
Alternates(trace) ==
    /\ Len(trace) % 2 = 1
    /\ \A k \in 1..Len(trace) : trace[k] = (IF k % 2 = 1 THEN "post" ELSE "delay")

\* a value that is present as a non-empty string
NonEmptyString(v) == v.t = "string" /\ v.s # ""

\* an entry as section 3 of the specification wants it
ValidEntry(e) ==
    /\ e.t = "object"
    /\ \A f \in Fields : NonEmptyString(Get(e, f))
    /\ ~DateParse(e.timestamp.s).nan

BadFields(e) == {f \in Fields : ~NonEmptyString(Get(e, f))}

\* the messages that name a field
FieldErrors(f) ==
    {"Field '" \o f \o "' is required and must be a string"}
    \cup (IF f = "log_level" THEN {"Log level is required and must be a string"} ELSE {})
    \cup (IF f = "message" THEN {"Message is required and must be a string"} ELSE {})

TimestampError == "Timestamp must be a valid ISO 8601 date string"
EmptyBatchError == "Entries must be a non-empty array"

\* public calls about one entry
SingleKinds == {"log", "debug", "info", "warn", "error", "fatal", "logEntry", "logMessage"}

CallsOfOp(k) == {p \in posted : sends[p.send].op = k}

\* the causes a retry-exhausted error can carry
Causes == {"Unknown error"} \cup {handleError(e) : e \in Failures \cup {StatusOfUndefined}}

ExhaustedWith(count, cause) == "Failed to send log after " \o count \o " attempts: " \o cause

-----------------------------------------------------------------------------
(* C1: one sendWithRetry invocation performs at most retryAttempts         *)
(* transport calls, for every client and every transport behaviour.        *)
C1_AtMostRetryAttempts ==
    \A i \in SendIds : IntLeq(Calls(sends[i]), RetryAttempts)

(* C2: a transport that fails k < retryAttempts times and then succeeds is *)
(* called exactly k+1 times: the send does not give up after fewer than    *)
(* retryAttempts failures, and once a call succeeded the send has made     *)
(* k+1 calls and k waits, the successful call is its last event, and it    *)
(* (and the single call that awaits it) resolved with no error.            *)
C2_FailThenSucceed ==
    \A i \in SendIds :
        LET s == sends[i] IN
        /\ s.pc = "failed" => ~IntLess(s.fails, RetryAttempts)
        /\ s.pc = "done" =>
            /\ IntLess(s.fails, RetryAttempts)
            /\ Calls(s) = s.fails + 1
            /\ Delays(s) = s.fails
            /\ Alternates(s.trace)
            /\ s.error = ""
            /\ ops[s.op].kind \in SingleKinds =>
                  ops[s.op].status = "resolved" /\ ops[s.op].error = ""

(* C3: when every call fails, the send makes exactly retryAttempts calls,  *)
(* waits retryAttempts-1 times, each wait between two consecutive calls    *)
(* and none after the last, and rejects with the retry-exhausted error     *)
(* carrying that count.                                                    *)
C3_AlwaysFails ==
    \A i \in SendIds :
        LET s == sends[i] IN
        s.pc = "failed" =>
            /\ RetryAttempts.d = 1 /\ Calls(s) = RetryAttempts.n
            /\ s.fails = Calls(s)
            /\ Delays(s) = Calls(s) - 1
            /\ Alternates(s.trace)
            /\ \E cause \in Causes : s.error = ExhaustedWith(ToString(Calls(s)), cause)

(* C4: the attempt count a retry-exhausted error reports is the number of  *)
(* transport calls the invocation made, whatever retryAttempts was given.  *)
C4_ReportedCountIsCallsMade ==
    \A i \in SendIds :
        sends[i].pc = "failed" =>
            \E cause \in Causes :
                sends[i].error = ExhaustedWith(ToString(Calls(sends[i])), cause)

(* C5: the cause a retry-exhausted error carries is the classified message *)
(* of the last failed transport call of that invocation, never a           *)
(* placeholder no transport failure produced.                              *)
C5_CauseIsLastFailure ==
    \A i \in SendIds :
        LET s == sends[i] IN
        s.pc = "failed" =>
            /\ s.fails > 0
            /\ s.thrown \in Failures
            /\ s.error = ExhaustedWith(ValueToString(RetryAttempts), handleError(s.thrown))

(* C6: validation is a gate: every entry handed to the transport has all   *)
(* five fields as non-empty strings and a timestamp that parses.           *)
C6_OnlyValidEntriesPosted == \A p \in posted : ValidEntry(p.data)

(* C7: a send of an entry with a missing, empty or non-string required     *)
(* field fails with an error naming such a field, without any transport    *)
(* call and without a retry sequence.                                      *)
C7_MissingFieldRefused ==
    \A k \in OpIds :
        LET op == ops[k]
            e == op.entries[1] IN
        (op.kind \in SingleKinds /\ e.t = "object" /\ BadFields(e) # {}) =>
            /\ op.status = "rejected"
            /\ \E f \in BadFields(e) : op.error \in FieldErrors(f)
            /\ op.sends = <<>>
            /\ CallsOfOp(k) = {}

(* C8: a send of an entry whose five fields are non-empty strings but      *)
(* whose timestamp does not parse fails with the invalid-timestamp error,  *)
(* which is no missing-field error, without any transport call.            *)
C8_UnparseableTimestampRefused ==
    \A k \in OpIds :
        LET op == ops[k]
            e == op.entries[1] IN
        (op.kind \in SingleKinds /\ e.t = "object" /\ BadFields(e) = {}
            /\ DateParse(e.timestamp.s).nan) =>
            /\ op.status = "rejected"
            /\ op.error = TimestampError
            /\ \A f \in Fields : op.error \notin FieldErrors(f)
            /\ op.sends = <<>>
            /\ CallsOfOp(k) = {}


\* the validation errors an entry can be refused with
SpecificErrors(e) ==
    IF e.t # "object" THEN {"Log entry must be an object"}
    ELSE IF BadFields(e) # {} THEN UNION {FieldErrors(f) : f \in BadFields(e)}
    ELSE {TimestampError}

InvalidAt(entries) == {j \in 1..Len(entries) : ~ValidEntry(entries[j])}

FirstInvalidAt(entries) == CHOOSE j \in InvalidAt(entries) : \A i \in InvalidAt(entries) : j <= i

(* C9: a batch with an invalid element fails with the error naming the     *)
(* zero-based index of the first invalid element and its validation error, *)
(* and no transport call is made for any element.                          *)
C9_BatchValidatedFirst ==
    \A k \in OpIds :
        LET op == ops[k] IN
        (op.kind = "logBatch" /\ op.isArray /\ InvalidAt(op.entries) # {}) =>
            LET j == FirstInvalidAt(op.entries) IN
            /\ op.status = "rejected"
            /\ \E m \in SpecificErrors(op.entries[j]) :
                  op.error = "Invalid log entry at index " \o ToString(j - 1) \o ": " \o m
            /\ op.sends = <<>>
            /\ \A i \in SendIds : sends[i].op # k
            /\ CallsOfOp(k) = {}

\* a batch whose second element is the first invalid one was refused
C9_Witness ==
    \E k \in OpIds :
        /\ ops[k].kind = "logBatch" /\ ops[k].isArray /\ Len(ops[k].entries) = 2
        /\ ValidEntry(ops[k].entries[1])
        /\ BadFields(ops[k].entries[2]) = {"app_name"}
        /\ ops[k].status = "rejected"
        /\ ops[k].error =
              "Invalid log entry at index 1: Field 'app_name' is required and must be a string"
        /\ posted = {}

(* C10: a batch send with an empty collection or a non-array input fails   *)
(* at once with 'Entries must be a non-empty array' and makes no transport *)
(* call.                                                                   *)
C10_EmptyBatchRefused ==
    \A k \in OpIds :
        LET op == ops[k] IN
        (op.kind = "logBatch" /\ (~op.isArray \/ Len(op.entries) = 0)) =>
            /\ op.status = "rejected"
            /\ op.error = EmptyBatchError
            /\ op.sends = <<>>
            /\ \A i \in SendIds : sends[i].op # k
            /\ CallsOfOp(k) = {}

\* an empty array and a non-array have both been refused
C10_Witness ==
    /\ \E k \in OpIds :
        /\ ops[k].kind = "logBatch" /\ ops[k].isArray /\ ops[k].entries = <<>>
        /\ ops[k].status = "rejected" /\ ops[k].error = EmptyBatchError
    /\ \E k \in OpIds :
        /\ ops[k].kind = "logBatch" /\ ~ops[k].isArray
        /\ ops[k].status = "rejected" /\ ops[k].error = EmptyBatchError
    /\ posted = {}

-----------------------------------------------------------------------------
(* Batches *)

BatchIds == {k \in OpIds : ops[k].kind = "logBatch"}

\* the sends an op started
SendsOf(k) == {ops[k].sends[j] : j \in 1..Len(ops[k].sends)}

\* a retry sequence with a transport call or a delay pending
InProgress(s) == s.pc \in {"post", "delay"}

(* C11 as stated: once logBatch has completed, resolved or rejected, no     *)
(* retry sequence of that batch is still in progress.                      *)
C11_CompletionWaitsForAll ==
    \A k \in BatchIds :
        ops[k].status # "pending" => \A i \in SendsOf(k) : ~InProgress(sends[i])

(* C11, amended: a logBatch that has resolved has no retry sequence in     *)
(* progress, each of them having returned; a logBatch that has rejected    *)
(* after its dispatch reports a sequence of its own that is over, while    *)
(* the others may still be in progress.                                    *)
C11_ResolveWaitsForAll ==
    \A k \in BatchIds :
        /\ ops[k].status = "resolved" =>
            /\ SendsOf(k) # {}
            /\ \A i \in SendsOf(k) : sends[i].pc = "done"
        /\ (ops[k].status = "rejected" /\ SendsOf(k) # {}) =>
            \E i \in SendsOf(k) : sends[i].pc = "failed" /\ sends[i].error = ops[k].error

\* a batch of two has resolved, one of its sends having been retried
C11_Witness ==
    \E k \in BatchIds :
        /\ ops[k].status = "resolved" /\ Cardinality(SendsOf(k)) = 2
        /\ \E i \in SendsOf(k) : sends[i].fails > 0 /\ Calls(sends[i]) = 2

\* the retry-exhausted errors of the client
RetryExhausted == {ExhaustedWith(ValueToString(RetryAttempts), cause) : cause \in Causes}

\* a retry sequence that ended in a successful transport call
EndedInSuccess(s) ==
    s.pc = "done" /\ s.succeeded = 1 /\ s.trace # <<>> /\ s.trace[Len(s.trace)] = "post"

(* C12: a batch of valid entries has one retry sequence per entry; it has  *)
(* resolved exactly when every one of them ended in a successful transport *)
(* call, and as soon as one of them has exhausted its retries it has       *)
(* rejected with the retry-exhausted error of an exhausted entry.          *)
C12_BatchResolvesIffAllSucceed ==
    \A k \in BatchIds :
        LET op == ops[k] IN
        (op.isArray /\ op.entries # <<>> /\ InvalidAt(op.entries) = {}) =>
            /\ Len(op.sends) = Len(op.entries)
            /\ Cardinality(SendsOf(k)) = Len(op.entries)
            /\ op.status = "resolved" <=> \A i \in SendsOf(k) : EndedInSuccess(sends[i])
            /\ (\E i \in SendsOf(k) : sends[i].pc = "failed") =>
                /\ op.status = "rejected"
                /\ op.error \in RetryExhausted
                /\ \E i \in SendsOf(k) : sends[i].pc = "failed" /\ sends[i].error = op.error

\* a batch of two has rejected: one entry was delivered, the other exhausted
\* its retries after a second call
C12_Witness ==
    \E k \in BatchIds :
        /\ Cardinality(SendsOf(k)) = 2
        /\ ops[k].status = "rejected"
        /\ \E i, j \in SendsOf(k) :
            /\ EndedInSuccess(sends[i])
            /\ sends[j].pc = "failed" /\ Calls(sends[j]) = 2
            /\ sends[j].error = ops[k].error

-----------------------------------------------------------------------------
(* The debug flag *)

\* the options of the client with the debug flag set to b
WithDebug(b) == [client.options EXCEPT !.debug = Bool(b)]

\* what a send does and how it ends: everything but its console lines
Observable(s) == [s EXCEPT !.console = <<>>]

(* C13: the debug flag alters neither control flow nor result: from every  *)
(* reachable point of a send and for every transport outcome (every value  *)
(* the call resolves with, every failure it rejects with), the client with *)
(* debug=true and the otherwise identical client with debug=false take the *)
(* same step: same calls and delays, same outcome, same error.             *)
C13_DebugHasNoEffect ==
    \A i \in SendIds :
        LET s == sends[i] IN
        /\ s.pc = "post" =>
            /\ \A response \in Responses :
                  Observable(tryRest(WithDebug(TRUE), s, response))
                      = Observable(tryRest(WithDebug(FALSE), s, response))
            /\ \A e \in Failures :
                  Observable(catchBlock(WithDebug(TRUE), s, e))
                      = Observable(catchBlock(WithDebug(FALSE), s, e))
        /\ s.pc = "delay" =>
              Observable(afterDelay(WithDebug(TRUE), s))
                  = Observable(afterDelay(WithDebug(FALSE), s))

-----------------------------------------------------------------------------
(* Retries and the kind of failure *)

\* the class handleError puts a thrown value in
ErrorClass(e) ==
    IF e.isAxios /\ e.hasResponse THEN "http"
    ELSE IF e.isAxios /\ e.hasRequest THEN "network"
    ELSE "unknown"

\* where a send is and what it has done, without the errors it has seen
Control(s) == [pc |-> s.pc, attempt |-> s.attempt, trace |-> s.trace, waits |-> s.waits]

(* C14: retries are blind to the error type: whatever the class of the     *)
(* failure of a transport call (HTTP response, no response, unknown thrown *)
(* value), the send continues in the same way, and all the sends of a      *)
(* client that have failed have made the same calls and delays.            *)
C14_RetriesBlindToErrorType ==
    /\ \A i \in SendIds :
          sends[i].pc = "post" =>
              \A e1, e2 \in Failures :
                  Control(catchBlock(client.options, sends[i], e1))
                      = Control(catchBlock(client.options, sends[i], e2))
    /\ \A i, j \in SendIds :
          (sends[i].pc = "failed" /\ sends[j].pc = "failed") =>
              /\ sends[i].trace = sends[j].trace
              /\ sends[i].waits = sends[j].waits

\* two sends have failed after three calls each, the last failure of one an
\* HTTP 400 response, that of the other an unknown thrown value
C14_Witness ==
    \E i, j \in SendIds :
        /\ sends[i].pc = "failed" /\ sends[j].pc = "failed"
        /\ Calls(sends[i]) = 3 /\ Calls(sends[j]) = 3
        /\ ErrorClass(sends[i].thrown) = "http" /\ sends[i].thrown.status = 400
        /\ ErrorClass(sends[j].thrown) = "unknown"

-----------------------------------------------------------------------------
(* The order of the attempts *)

\* the transport calls of a send that have neither resolved nor rejected
Outstanding(s) == Calls(s) - s.fails - s.succeeded

(* C15: within one send the attempts are strictly sequential: at most one  *)
(* transport call of the send is outstanding at any time, and a further    *)
(* call is issued only by the step that ends the delay which followed the  *)
(* failure of the previous call, as the next attempt.                      *)
C15_AttemptsAreSequential ==
    [][ /\ \A i \in 1..Len(sends') :
              /\ Outstanding(sends'[i]) \in {0, 1}
              /\ Outstanding(sends'[i]) = 1 <=> sends'[i].pc = "post"
        /\ \A i \in SendIds :
              Calls(sends'[i]) # Calls(sends[i]) =>
                  /\ sends[i].pc = "delay"
                  /\ Outstanding(sends[i]) = 0
                  /\ sends[i].trace[Len(sends[i].trace)] = "delay"
                  /\ sends[i].thrown # NoFailure
                  /\ Calls(sends'[i]) = Calls(sends[i]) + 1
                  /\ sends'[i].attempt = sends[i].attempt + 1
        /\ \A i \in (1..Len(sends')) \ SendIds : Calls(sends'[i]) <= 1 ]_vars

\* the third call of a send is outstanding, after two failures and two delays
C15_Witness ==
    \E i \in SendIds :
        /\ sends[i].pc = "post" /\ sends[i].attempt = 3
        /\ sends[i].trace = <<"post", "delay", "post", "delay", "post">>
        /\ sends[i].fails = 2 /\ Outstanding(sends[i]) = 1

-----------------------------------------------------------------------------
(* The delay between attempts *)

RetryDelay == client.options.retryDelay

C17_BackoffGrows ==
    \A i \in SendIds :
        \A k \in 2..Len(sends[i].waits) :
            sends[i].waits[k - 1].n * sends[i].waits[k].d
                < sends[i].waits[k].n * sends[i].waits[k - 1].d

-----------------------------------------------------------------------------
(* The shorthands *)

Shorthands == {"debug", "info", "warn", "error", "fatal"}

\* the level each shorthand stands for
LevelOf(kind) ==
    CASE kind = "debug" -> Str("DEBUG")
      [] kind = "info" -> Str("INFO")
      [] kind = "warn" -> Str("WARN")
      [] kind = "error" -> Str("ERROR")
      [] kind = "fatal" -> Str("FATAL")

\* the level a call of the simplified API sends with
LevelSent(op) == IF op.kind = "log" THEN op.entries[1].log_level ELSE LevelOf(op.kind)

\* what a send has met so far: the outcomes of its transport calls and the
\* timers that fired
Met(s) ==
    [fails |-> s.fails, succeeded |-> s.succeeded, thrown |-> s.thrown, elapsed |-> s.elapsed]

\* the data of the transport calls of an op, by attempt
DataSent(k) == {[attempt |-> p.attempt, endpoint |-> p.endpoint, data |-> p.data] : p \in CallsOfOp(k)}

(* C20: each shorthand is a fixed pass-through.  The entry of a call of    *)
(* debug/info/warn/error/fatal(message, timestamp) is the one              *)
(* log(LEVEL, message, timestamp) builds from the same message, timestamp  *)
(* and clock, with the fixed level of the shorthand; and a shorthand call  *)
(* and a log call with that level, the same message, timestamp and clock   *)
(* whose sends met the same transport outcomes have made the same          *)
(* transport calls with the same entry and stand at the same outcome and   *)
(* error.                                                                  *)
C20_ShorthandsPassThrough ==
    /\ \A k \in OpIds :
          ops[k].kind \in Shorthands =>
              ops[k].entries =
                  <<Entry(OrElse(ops[k].arg, Str(toISOString(ops[k].at))), LevelOf(ops[k].kind),
                          ops[k].text, client.appName, client.appUuid)>>
    /\ \A k, l \in OpIds :
          (/\ ops[k].kind \in Shorthands /\ ops[l].kind = "log"
           /\ LevelSent(ops[l]) = LevelOf(ops[k].kind)
           /\ ops[l].text = ops[k].text /\ ops[l].arg = ops[k].arg /\ ops[l].at = ops[k].at
           /\ Len(ops[k].sends) = Len(ops[l].sends)
           /\ \A n \in 1..Len(ops[k].sends) :
                 Met(sends[ops[k].sends[n]]) = Met(sends[ops[l].sends[n]]))
          => /\ ops[k].entries = ops[l].entries
             /\ ops[k].status = ops[l].status
             /\ ops[k].error = ops[l].error
             /\ Len(ops[k].sends) = 0 <=> NotAString(ops[k].text)
             /\ DataSent(k) = DataSent(l)
             /\ \A n \in 1..Len(ops[k].sends) :
                   Observable(sends[ops[k].sends[n]])
                       = [Observable(sends[ops[l].sends[n]]) EXCEPT !.op = k]

\* info(message, timestamp) and log('INFO', message, timestamp) have both
\* been retried once and then delivered, with the timestamp given
C20_Witness ==
    \E k, l \in OpIds :
        /\ ops[k].kind = "info" /\ ops[l].kind = "log"
        /\ ops[k].arg = Str(CustomTimestamp) /\ ops[l].arg = Str(CustomTimestamp)
        /\ ops[k].text = Message /\ ops[l].text = Message
        /\ ops[l].entries[1].log_level = Str("INFO")
        /\ ops[k].status = "resolved" /\ ops[l].status = "resolved"
        /\ \A n \in SendIds : sends[n].fails = 1 /\ sends[n].succeeded = 1

-----------------------------------------------------------------------------
(* The classification of failures *)

\* the message a thrown value came with
OriginalMessage(e) == IF e.isError THEN e.message ELSE ValueToString(e.value)

\* the server responded, with a message field in the body
RespondedWithMessage(e) == e.isAxios /\ e.hasResponse /\ e.dataMessage # ""

\* the server responded, without a message field in the body
RespondedWithoutMessage(e) == e.isAxios /\ e.hasResponse /\ e.dataMessage = ""

\* a request was made and no response was received
NoResponseReceived(e) == e.isAxios /\ ~e.hasResponse /\ e.hasRequest

\* the sends that have caught a thrown value
Caught == {i \in SendIds : sends[i].thrown # NoFailure}

\* the example of the specification: the transport answered HTTP 400 with the
\* message 'Bad Request' and the send of the client with 3 attempts has failed
BadRequestExample(s) ==
    (/\ s.pc = "failed"
     /\ RetryAttempts = Num(3)
     /\ RespondedWithMessage(s.thrown)
     /\ s.thrown.status = 400 /\ s.thrown.dataMessage = "Bad Request")
    => /\ s.error = "Failed to send log after 3 attempts: HTTP 400: Bad Request"
       /\ ops[s.op].status = "rejected"
       /\ ops[s.op].error = s.error

(* C19 as stated: the classified message is 'HTTP <status>: <server        *)
(* message>' when the server responded with a message field, 'Network      *)
(* error: <message>' when a request was made and no response received, and *)
(* the original message for anything else.                                 *)
C19_ThreeMessages ==
    \A i \in Caught :
        LET e == sends[i].thrown IN
        /\ sends[i].lastError =
              (IF RespondedWithMessage(e)
                  THEN "HTTP " \o ToString(e.status) \o ": " \o e.dataMessage
               ELSE IF NoResponseReceived(e) THEN "Network error: " \o e.message
               ELSE OriginalMessage(e))
        /\ BadRequestExample(sends[i])

(* C19, amended: as stated, except that a response without a message field *)
(* is classified as an HTTP error too, with the transport's error message  *)
(* in the place of the server message; the original message is kept for    *)
(* what is neither a response nor a request without response.              *)
C19_ThreeClasses ==
    \A i \in Caught :
        LET e == sends[i].thrown IN
        /\ sends[i].lastError =
              (IF RespondedWithMessage(e)
                  THEN "HTTP " \o ToString(e.status) \o ": " \o e.dataMessage
               ELSE IF RespondedWithoutMessage(e)
                  THEN "HTTP " \o ToString(e.status) \o ": " \o e.message
               ELSE IF NoResponseReceived(e) THEN "Network error: " \o e.message
               ELSE OriginalMessage(e))
        /\ BadRequestExample(sends[i])

\* the example has happened: three calls answered, the last with HTTP 400 and
\* 'Bad Request', and log rejected with the text of the specification
C19_Witness ==
    \E i \in Caught :
        /\ sends[i].pc = "failed" /\ Calls(sends[i]) = 3 /\ sends[i].fails = 3
        /\ sends[i].thrown = Thrown(TRUE, TRUE, 400, "Bad Request", TRUE, TRUE, "Request failed")
        /\ ops[sends[i].op].kind = "log"
        /\ ops[sends[i].op].error = "Failed to send log after 3 attempts: HTTP 400: Bad Request"

-----------------------------------------------------------------------------
(* Completion *)

\* the errors of validation, of batch validation and of exhausted retries
ValidationErrors ==
    {"Log level is required and must be a string", "Message is required and must be a string",
     "Log entry must be an object", TimestampError}
    \cup UNION {FieldErrors(f) : f \in Fields}

BatchValidationErrors ==
    {EmptyBatchError}
    \cup {"Invalid log entry at index " \o ToString(j) \o ": " \o m :
            j \in 0..(MaxBatch - 1), m \in ValidationErrors}

\* the status of the k-th public call, "none" before it is made
StatusOf(k) == IF k \in OpIds THEN ops[k].status ELSE "none"

\* nothing is swallowed: a call that has resolved has had a successful
\* transport call for each of its entries, a call with a failed send has
\* rejected, and a call that has rejected carries one of the three errors
NothingSwallowed ==
    \A k \in OpIds :
        /\ ops[k].status = "resolved" =>
            /\ Len(ops[k].sends) = Len(ops[k].entries) /\ ops[k].sends # <<>>
            /\ \A i \in SendsOf(k) : sends[i].pc = "done" /\ sends[i].succeeded >= 1
        /\ (\E i \in SendsOf(k) : sends[i].pc = "failed") => ops[k].status = "rejected"
        /\ ops[k].status = "rejected" =>
              ops[k].error \in ValidationErrors \cup BatchValidationErrors \cup RetryExhausted

(* C18: no failure is swallowed and every operation completes: with every  *)
(* transport call and every delay completing, each public call eventually  *)
(* resolves, after a successful transport call for each of its entries, or *)
(* rejects with a validation, batch-validation or retry-exhausted error.   *)
C18_EveryCallCompletes ==
    /\ []NothingSwallowed
    /\ \A k \in 1..MaxOps : StatusOf(k) = "pending" ~> StatusOf(k) \in {"resolved", "rejected"}

-----------------------------------------------------------------------------
(* The entry of log *)

\* the public calls of the simplified API
SimplifiedKinds == {"log"} \cup Shorthands

\* the op a transport call belongs to
OpOf(p) == ops[sends[p.send].op]

(* C21: every entry that log(level, message) hands to the transport is a   *)
(* record of the five fields that carries exactly the level and message    *)
(* given and the app_name and app_uuid the client was constructed with,    *)
(* and it is posted to '/logs'.                                            *)
C21_EntryCarriesArguments ==
    \A p \in posted :
        OpOf(p).kind \in SimplifiedKinds =>
            /\ p.endpoint = "/logs"
            /\ DOMAIN p.data = {"t", "timestamp", "log_level", "message", "app_name", "app_uuid"}
            /\ p.data.t = "object"
            /\ p.data.log_level = OpOf(p).level
            /\ p.data.message = OpOf(p).text
            /\ p.data.app_name = client.appName
            /\ p.data.app_uuid = client.appUuid

\* the call of the test suite: log('INFO', 'Test message') of the client of
\* 'test-app' has posted its entry
C21_Witness ==
    \E p \in posted :
        /\ OpOf(p).kind = "log"
        /\ p.endpoint = "/logs"
        /\ p.data.log_level = Str("INFO") /\ p.data.message = Str("Test message")
        /\ p.data.app_name = Str("test-app") /\ p.data.app_uuid = Str("test-uuid-123")

-----------------------------------------------------------------------------
(* Timestamps *)

\* the calls that stamp the entry themselves: no timestamp argument, or logMessage
Stamped(k) ==
    \/ ops[k].kind \in SimplifiedKinds /\ ~Truthy(ops[k].arg)
    \/ ops[k].kind = "logMessage"

TimestampOf(k) == ops[k].entries[1].timestamp

\* C22: an entry without a supplied timestamp carries the clock value at the
\* time of the call, so the timestamps of successive calls do not decrease;
\* a supplied timestamp is the one that is transmitted
C22_TimestampAtCallTime ==
    /\ \A k \in OpIds : Stamped(k) => TimestampOf(k) = Str(toISOString(ops[k].at))
    /\ \A k, l \in OpIds :
            k < l /\ Stamped(k) /\ Stamped(l) =>
                /\ ~DateParse(TimestampOf(k).s).nan /\ ~DateParse(TimestampOf(l).s).nan
                /\ DateParse(TimestampOf(k).s).ms <= DateParse(TimestampOf(l).s).ms
    /\ \A p \in posted :
            /\ Stamped(sends[p.send].op) => p.data.timestamp = Str(toISOString(OpOf(p).at))
            /\ OpOf(p).kind \in SimplifiedKinds /\ Truthy(OpOf(p).arg) =>
                    p.data.timestamp = OpOf(p).arg

C22_Witness ==
    /\ Len(ops) = 2 /\ Stamped(1) /\ Stamped(2)
    /\ ops[1].kind = "log" /\ ops[2].kind = "info"
    /\ ops[1].at = 0 /\ ops[2].at = 1
    /\ \E p, q \in posted :
            /\ sends[p.send].op = 1 /\ p.data.timestamp = Str(toISOString(0))
            /\ sends[q.send].op = 2 /\ q.data.timestamp = Str(toISOString(1))

-----------------------------------------------------------------------------
(* Options *)

Defaults ==
    [baseUrl |-> Str("https://ingst.logelse.com"), timeout |-> Num(5000),
     retryAttempts |-> Num(3), retryDelay |-> Num(1000), debug |-> Bool(FALSE)]

OptionNames == {"baseUrl", "timeout", "retryAttempts", "retryDelay", "debug"}

\* the value an option is to resolve to: the one given, the default when omitted
Supplied(o, f) == IF o[f] = Undefined THEN Defaults[f] ELSE o[f]

\* C23: every option of the client is the value its constructor was given, and
\* the default only when it was given none; retryAttempts is the total number
\* of transport calls of a send that fails throughout
C23_OptionsResolve ==
    /\ \A o \in OptionArgs :
            client = constructor("simplified", ApiKey, o) =>
                \A f \in OptionNames : client.options[f] = Supplied(o, f)
    /\ \A i \in SendIds :
            /\ Calls(sends[i]) <= client.options.retryAttempts.n
            /\ sends[i].pc = "failed" => Calls(sends[i]) = client.options.retryAttempts.n

-----------------------------------------------------------------------------
(* Construction errors *)

\* empty, missing or not a string
Invalid(v) == v.t # "string" \/ v.s = ""

\* the error that names the first invalid one of apiKey, appName, appUuid
FirstInvalidError(a) ==
    IF Invalid(a[2]) THEN "API key is required and must be a string"
    ELSE IF Invalid(a[3].appName) THEN "appName is required and must be a string"
    ELSE IF Invalid(a[3].appUuid) THEN "appUuid is required and must be a string"
    ELSE ""

\* the state is the one the construction with arguments a has left
ConstructedFrom(a) ==
    client = constructor(a[1], a[2], a[3]) /\ ctorError = constructorError(a[1], a[2], a[3])

\* C24: a construction with an invalid apiKey, appName or appUuid fails with
\* the error of the first invalid one in that order, and leaves no client and
\* no transport: nothing can be called and nothing is ever posted
C24_ConstructionFails ==
    /\ \A a \in CtorArgs : ConstructedFrom(a) => ctorError = FirstInvalidError(a)
    /\ ctorError # "" => client = NoClient /\ ops = <<>> /\ sends = <<>> /\ posted = {}
    /\ ctorError = "" => client # NoClient

C24_Witness ==
    /\ ctorError = "appName is required and must be a string"
    /\ client = NoClient
    /\ \E a \in CtorArgs : ConstructedFrom(a) /\ Invalid(a[3].appName) /\ Invalid(a[3].appUuid)

-----------------------------------------------------------------------------
(* Immutability of the configuration *)

\* C25: no call, transport result or timer changes the client: its key, its
\* appName and appUuid and its resolved options stay what the constructor set
C25_ConfigurationIsImmutable == [][client' = client]_vars

C25_Witness ==
    /\ client.options.baseUrl = Str("https://custom.api.com")
    /\ client.options.debug = Bool(TRUE)
    /\ Len(ops) = 2
    /\ ops[1].status = "resolved"
    /\ ops[2].status = "rejected" /\ Len(ops[2].sends) = 1
    /\ sends[ops[2].sends[1]].pc = "failed"

-----------------------------------------------------------------------------
(* Order of the validation checks *)

FieldOrder == <<"timestamp", "log_level", "message", "app_name", "app_uuid">>

\* the first field, in the order of the checks, that is no non-empty string
FirstBadField(e) ==
    FieldOrder[CHOOSE k \in 1..Len(FieldOrder) :
                   /\ FieldOrder[k] \in BadFields(e)
                   /\ \A j \in 1..(k - 1) : FieldOrder[j] \notin BadFields(e)]

\* the errors the checks, run in their order up to the first violation, can give
FirstViolation(e) ==
    IF e.t # "object" THEN {"Log entry must be an object"}
    ELSE IF BadFields(e) # {} THEN FieldErrors(FirstBadField(e))
    ELSE IF DateParse(e.timestamp.s).nan THEN {TimestampError}
    ELSE {}

\* a call about one entry that validation has refused
Refused(k) ==
    /\ ops[k].kind \in SingleKinds
    /\ ops[k].status = "rejected"
    /\ ops[k].sends = <<>>

\* C26: a refused entry is refused with the error of the first check it
\* violates, in the order record, timestamp, level, message, app_name,
\* app_uuid, timestamp parseability
C26_FirstViolationReported ==
    \A k \in OpIds : Refused(k) => ops[k].error \in FirstViolation(ops[k].entries[1])

-----------------------------------------------------------------------------
(* The entry of a retry sequence *)

\* the entry of the caller that send i is about
EntryOf(i) == ops[sends[i].op].entries[sends[i].index + 1]

\* every transport call of a send carries the endpoint and the entry the
\* send was started with, which is the entry of the caller
SameEntryEveryAttempt ==
    /\ \A p, q \in posted : p.send = q.send => p.endpoint = q.endpoint /\ p.data = q.data
    /\ \A p \in posted : p.endpoint = Endpoint /\ p.data = EntryOf(p.send)
    /\ \A i \in SendIds : sends[i].endpoint = Endpoint /\ sends[i].data = EntryOf(i)

\* no step changes the entries of a call that was made or the entry of a send
EntriesUntouched ==
    /\ \A k \in OpIds :
            ops'[k].entries = ops[k].entries /\ ops'[k].isArray = ops[k].isArray
    /\ \A i \in SendIds :
            sends'[i].data = sends[i].data /\ sends'[i].endpoint = sends[i].endpoint

\* C27: all transport calls of one send are made with the same endpoint and
\* the same entry, and no step of a send changes the entry or the collection
\* the caller passed
C27_EntryNotMutated == []SameEntryEveryAttempt /\ [][EntriesUntouched]_vars

C27_Witness ==
    \E p, q \in posted :
        /\ p.send = q.send /\ p.attempt = 1 /\ q.attempt = 2
        /\ OpOf(p).kind = "logBatch" /\ Len(OpOf(p).entries) = 2
        /\ sends[p.send].pc = "done"

-----------------------------------------------------------------------------
(* Independence of concurrent sends *)

\* what a send can become in one step: a function of its own state and of the
\* result of its own transport call or of its own timer
OwnSteps(s) ==
    IF s.pc = "post"
    THEN {tryRest(client.options, [s EXCEPT !.succeeded = Count(@)], r) : r \in Responses}
         \cup {catchBlock(client.options, [s EXCEPT !.fails = Count(@)], e) : e \in Failures}
    ELSE IF s.pc = "delay"
    THEN {afterDelay(client.options, [s EXCEPT !.elapsed = Count(@)])}
    ELSE {}

\* a step moves one send at most, by a step of its own, and leaves the others
OneSendMoves ==
    \A i \in SendIds :
        sends'[i] # sends[i] =>
            /\ sends'[i] \in OwnSteps(sends[i])
            /\ \A j \in SendIds \ {i} : sends'[j] = sends[j]

\* the attempt counter of a send counts its own transport calls
OwnCounter ==
    \A i \in SendIds :
        sends[i].attempt = Calls(sends[i]) + (IF sends[i].pc = "failed" THEN 1 ELSE 0)

\* C28: concurrent sends are independent: every step of a send is determined
\* by its own state and its own transport result, no step of one send (or
\* start of another) changes the attempt counter, the last error or anything
\* else of another send
C28_SendsAreIndependent == []OwnCounter /\ [][OneSendMoves]_vars

C28_Witness ==
    \E k \in OpIds :
        /\ ops[k].kind = "logBatch" /\ Len(ops[k].sends) = 2
        /\ sends[ops[k].sends[1]].pc = "failed" /\ Calls(sends[ops[k].sends[1]]) = 2
        /\ sends[ops[k].sends[2]].pc = "done" /\ Calls(sends[ops[k].sends[2]]) = 1
        /\ sends[ops[k].sends[2]].lastError # sends[ops[k].sends[1]].lastError

-----------------------------------------------------------------------------
(* The sends of a batch *)

\* a logBatch whose collection is a non-empty array of valid entries
ValidBatch(k) ==
    /\ ops[k].kind = "logBatch" /\ ops[k].isArray
    /\ Len(ops[k].entries) > 0
    /\ \A j \in 1..Len(ops[k].entries) : ValidEntry(ops[k].entries[j])

\* one send per element, in the order of the collection, started together
OnePerElement(k) ==
    /\ Len(ops[k].sends) = Len(ops[k].entries)
    /\ \A j \in 1..Len(ops[k].sends) :
            LET i == ops[k].sends[j] IN
            /\ i \in SendIds /\ i = ops[k].sends[1] + j - 1
            /\ sends[i].op = k /\ sends[i].index = j - 1
            /\ sends[i].data = ops[k].entries[j]

\* the transport has answered every call of the batch with success
TransportSucceeded(k) ==
    \A i \in SendsOf(k) : ~InProgress(sends[i]) /\ sends[i].fails = 0

\* C29: a valid batch has one send per element of its collection, all of them
\* from the step of the call on; when the transport never failed, the batch
\* of n entries has made n transport calls, one per element, and has resolved
C29_OneSendPerElement ==
    \A k \in OpIds :
        ValidBatch(k) =>
            /\ OnePerElement(k)
            /\ TransportSucceeded(k) =>
                    /\ Cardinality(CallsOfOp(k)) = Len(ops[k].entries)
                    /\ \A i \in SendsOf(k) : Calls(sends[i]) = 1
                    /\ ops[k].status = "resolved"

-----------------------------------------------------------------------------
(* A batch that has failed *)

\* a logBatch that has rejected because a send of it exhausted its attempts
FailedBatch(k) ==
    /\ ops[k].kind = "logBatch" /\ ops[k].status = "rejected"
    /\ \E i \in SendsOf(k) : sends[i].pc = "failed" /\ ops[k].error = sends[i].error

\* the pending call of send i resolves and the entry is delivered
Delivers(i) == Resolves(i) /\ sends'[i].pc = "done"

\* the sends of a failed batch that are in progress can go on: the pending
\* call can deliver the entry, the pending timer can fire
StillRunning ==
    \A k \in BatchIds :
        FailedBatch(k) =>
            \A i \in SendsOf(k) :
                /\ sends[i].pc = "post" => ENABLED Delivers(i)
                /\ sends[i].pc = "delay" => ENABLED Elapses(i)

\* no step ends a send of a batch but a step of its own, whether or not the
\* batch has failed, and a failed batch stays failed with the error it reported
NothingCancelled ==
    \A k \in BatchIds :
        /\ \A i \in SendsOf(k) :
                InProgress(sends[i]) =>
                    sends'[i] = sends[i] \/ sends'[i] \in OwnSteps(sends[i])
        /\ FailedBatch(k) =>
                ops'[k].status = "rejected" /\ ops'[k].error = ops[k].error

\* C30: the failure of a batch cancels nothing: the other sends of a batch
\* that has rejected run on by their own steps and can still deliver their
\* entries
C30_FailureCancelsNothing == []StillRunning /\ [][NothingCancelled]_vars

C30_Witness ==
    \E k \in BatchIds :
        /\ FailedBatch(k) /\ Len(ops[k].sends) = 2
        /\ sends[ops[k].sends[1]].pc = "failed" /\ Calls(sends[ops[k].sends[1]]) = 2
        /\ sends[ops[k].sends[2]].pc = "post" /\ sends[ops[k].sends[2]].attempt = 2
        /\ ENABLED Delivers(ops[k].sends[2])

-----------------------------------------------------------------------------
(* A send that fails has tried *)

\* C31: on every client the constructor accepts, a send that has rejected
\* has made at least one transport call, and the call that awaits it has
\* rejected only after that call
C31_NeverFailsUntried ==
    \A i \in SendIds :
        sends[i].pc = "failed" =>
            /\ Calls(sends[i]) >= 1
            /\ \E p \in posted : p.send = i /\ p.attempt = 1

-----------------------------------------------------------------------------
(* Responses without a message, errors without response and request *)

\* a transport-shaped error with neither a response nor a request
NeitherResponseNorRequest(e) == e.isAxios /\ ~e.hasResponse /\ ~e.hasRequest

\* C32: a failure with a response whose body has no message is an HTTP error
\* that carries the status and the message of the transport error, whether
\* or not the error holds a request; a transport error with neither response
\* nor request keeps its own message, without a prefix
C32_ResponseWithoutMessage ==
    \A i \in Caught :
        LET e == sends[i].thrown IN
        /\ RespondedWithoutMessage(e) =>
                /\ sends[i].lastError = "HTTP " \o ToString(e.status) \o ": " \o e.message
                /\ sends[i].lastError # "Network error: " \o e.message
                /\ sends[i].lastError # e.message
        /\ NeitherResponseNorRequest(e) => sends[i].lastError = e.message
        /\ (sends[i].pc = "failed" /\ Calls(sends[i]) > 0) =>
                sends[i].error = exhaustedMessage(RetryAttempts, sends[i].lastError)

C32_Witness ==
    \E i \in Caught :
        /\ sends[i].thrown = Thrown(TRUE, TRUE, 503, "", FALSE, TRUE, "Request failed")
        /\ sends[i].pc = "failed"
        /\ ops[sends[i].op].error = "Failed to send log after 3 attempts: HTTP 503: Request failed"

=============================================================================
